---- MODULE Spec2Model ----
(***************************************************************************)
(* Smart Interview Agent: the Streamlit session state machine of app.py    *)
(* driving InterviewAgent (agents/interview_agent.py), ConversationManager *)
(* (utils/conversation_manager.py) and ReportGenerator                     *)
(* (utils/report_generator.py).                                            *)
(*                                                                         *)
(* Conventions.                                                            *)
(*  - A Python call either returns or raises: Ok(v) / Raise(e).            *)
(*  - A text that is meant to be JSON is a record [wf, doc]: wf says       *)
(*    whether json.loads accepts it, doc is the value it decodes to.       *)
(*  - A float is kept in tenths (float(7) is 70), so that float() and      *)
(*    round(x, 1) are real conversions.                                    *)
(*  - A candidate answer is the sequence of its whitespace-separated       *)
(*    words, so that len(response.split()) is Len.                         *)
(*  - The OpenAI client is constructed successfully (an API key is         *)
(*    configured); every later call to it may fail.                        *)
(***************************************************************************)
EXTENDS Integers, Sequences, FiniteSets, TLC

VARIABLES interview_started, interview_ended, job_config,
          conversation_manager, interview_agent,
          agent_response, service_io, conversation_data, report, st_error

vars == <<interview_started, interview_ended, job_config,
          conversation_manager, interview_agent,
          agent_response, service_io, conversation_data, report, st_error>>

(***************************************************************************)
(* Bounds of the model                                                     *)
(***************************************************************************)
\* "Skip Question" is pressed only on the first MaxSkipPosition questions
MaxSkipPosition == 2
\* exchanges added to a ConversationManager driven directly (SpecCM)
MaxExchanges == 5

(***************************************************************************)
(* Python values                                                           *)
(***************************************************************************)
None == [cls |-> "NoneType"]

Ok(v) == [exc |-> "none", val |-> v]

Raise(e) == [exc |-> e]

Min(a, b) == IF a <= b THEN a ELSE b

\* json.dumps: the text of a JSON document
json_dumps(v) == [wf |-> TRUE, doc |-> v]

\* json.loads: JSONDecodeError on a text that is not JSON
json_loads(text) == IF text.wf THEN Ok(text.doc) ELSE Raise("JSONDecodeError")

\* a text that is not JSON
Plain(s) == [wf |-> FALSE, txt |-> s]

\* JSON values, tagged by their type
JObject(m) == [t |-> "object", m |-> m]

JInt(n) == [t |-> "int", i |-> n]

JStr(s) == [t |-> "str", s |-> s]

\* the string an f-string builds, as its fragments
JText(fragments) == [t |-> "str", fragments |-> fragments]

JNull == [t |-> "null"]

JList(items) == [t |-> "list", items |-> items]

JFloat(tenths) == [t |-> "float", f |-> tenths]

\* dict.get(key, default) on a decoded JSON value; only a dict has .get
dict_get(d, key, default) ==
    IF d.t # "object" THEN Raise("AttributeError")
    ELSE IF key \in DOMAIN d.m THEN Ok(d.m[key]) ELSE Ok(default)

\* float(x), in tenths
float(x) ==
    CASE x.t = "int" -> Ok(x.i * 10)
      [] x.t = "float" -> Ok(x.f)
      [] x.t = "str" -> IF x.s = "7" THEN Ok(70) ELSE Raise("ValueError")
      [] OTHER -> Raise("TypeError")

(***************************************************************************)
(* The generation service: chat.completions.create either raises or        *)
(* returns a response whose `choices` is a list of choices.                *)
(***************************************************************************)
ServiceError == [ok |-> FALSE]

Response(text) == [ok |-> TRUE, choices |-> <<[message |-> [content |-> text]]>>]

\* evaluation texts the service may produce
EvalDoc(score, probe) ==
    JObject([score |-> score, feedback |-> JStr("fb"),
             strengths |-> JStr("st"), areas_to_probe |-> JStr(probe)])

EvalTexts ==
    { json_dumps(EvalDoc(JInt(7), "depth")),
      json_dumps(EvalDoc(JInt(11), "depth")),
      json_dumps(EvalDoc(JStr("high"), "depth")),
      json_dumps(JObject([feedback |-> JStr("fb")])),
      json_dumps(JList(<<JInt(7)>>)),
      Plain("Score: 8 out of 10") }

\* a text is the sequence of its fragments; <<>> is the empty text
QuestionTexts == { <<"What is a Python decorator?">>, <<>> }

EvalReplies == {ServiceError} \cup {Response(t) : t \in EvalTexts}

QuestionReplies == {ServiceError} \cup {Response(t) : t \in QuestionTexts}

OpeningReplies == {ServiceError, Response(<<"Tell me about your background.">>)}

(***************************************************************************)
(* InterviewAgent                                                          *)
(***************************************************************************)
\* the selectbox options of the sidebar
Quick == "Quick (5-8 questions)"

Standard == "Standard (8-12 questions)"

Comprehensive == "Comprehensive (12-15 questions)"

duration_map == [d \in {Quick, Standard, Comprehensive} |->
                   CASE d = Quick -> 8 [] d = Standard -> 12 [] OTHER -> 15]

\* duration_map.get(job_config.get("duration", Standard), 10)
_get_max_questions(config) ==
    LET d == IF "duration" \in DOMAIN config THEN config["duration"] ELSE Standard
    IN IF d \in DOMAIN duration_map THEN duration_map[d] ELSE 10

\* str.strip() of a text
strip(text) == text

\* the mutant of message_content: the first choice's message, as in
\* ReportGenerator.generate_report
message_content_of_first_choice(response) ==
    IF response.choices = <<>> THEN Raise("IndexError")
    ELSE Ok(strip(response.choices[1].message.content))

\* response.choices.message.content.strip(): `choices` is a list (it is
\* indexed as choices[0] in ReportGenerator.generate_report), and a list has
\* no attribute `message`
message_content(response) == Raise("AttributeError")

opening_fallback(config) ==
    <<"Hello! I'm excited to interview you for the ", config["title"],
      " position. Can you start by telling me about your relevant experience and what interests you about this role?">>

_generate_first_question(config, reply) ==
    IF ~reply.ok THEN opening_fallback(config)
    ELSE LET c == message_content(reply)
         IN IF c.exc # "none" THEN opening_fallback(config) ELSE c.val

\* InterviewAgent.__init__
InterviewAgent(config, reply) ==
    [cls |-> "InterviewAgent",
     job_config |-> config,
     question_count |-> 0,
     current_question |-> _generate_first_question(config, reply),
     interview_context |-> <<>>,
     max_questions |-> _get_max_questions(config)]

get_first_question(agent) == agent.current_question

\* the evaluation returned when the text is not JSON
fallback_evaluation_6 ==
    json_dumps(JObject([score |-> JInt(6),
        feedback |-> JStr("Thank you for your response. I'd like to explore this topic further."),
        strengths |-> JStr("Good communication"),
        areas_to_probe |-> JStr("Technical depth")]))

\* the evaluation returned when the call raised
fallback_evaluation_5 ==
    json_dumps(JObject([score |-> JInt(5),
        feedback |-> JStr("I appreciate your response. Let's continue with the next question."),
        strengths |-> JStr("Engagement with the question"),
        areas_to_probe |-> JStr("More detailed examples")]))

\* the mutant of _evaluate_response: the fallback's feedback quotes the
\* number of the question
_evaluate_response_numbered(agent, response, reply) ==
    LET numbered == json_dumps(JObject([score |-> JInt(5),
            feedback |-> JText(<<"Let's continue after question ", ToString(agent.question_count + 1)>>),
            strengths |-> JStr("Engagement with the question"),
            areas_to_probe |-> JStr("More detailed examples")]))
    IN IF ~reply.ok THEN numbered
       ELSE LET c == message_content(reply)
            IN IF c.exc # "none" THEN numbered
               ELSE IF json_loads(c.val).exc = "none" THEN c.val
               ELSE fallback_evaluation_6

_evaluate_response(agent, response, reply) ==
    IF ~reply.ok THEN fallback_evaluation_5
    ELSE LET c == message_content(reply)
         IN IF c.exc # "none" THEN fallback_evaluation_5
            ELSE IF json_loads(c.val).exc = "none" THEN c.val
            ELSE fallback_evaluation_6

fallback_questions ==
    << <<"Can you describe a challenging technical problem you've solved and walk me through your approach?">>,
       <<"How do you stay updated with the latest developments in your field?">>,
       <<"Tell me about a time when you had to work with a difficult team member. How did you handle it?">>,
       <<"What interests you most about this role and our company?">>,
       <<"Do you have any questions about the position or our team?">> >>

\* the mutant of question_index: the count after this response
question_index_after(agent) == Min(agent.question_count + 1, Len(fallback_questions) - 1)

\* min(self.question_count, len(fallback_questions) - 1), 0-based
question_index(agent) == Min(agent.question_count, Len(fallback_questions) - 1)

\* the parse of the evaluation only feeds the prompt (bare except), so it
\* decides nothing; the result is the service's text or a fallback question
_generate_next_question(agent, candidate_response, evaluation, reply) ==
    IF ~reply.ok THEN fallback_questions[question_index(agent) + 1]
    ELSE LET c == message_content(reply)
         IN IF c.exc # "none" THEN fallback_questions[question_index(agent) + 1]
            ELSE c.val

\* the mutant of is_final_at: strictly more than max_questions
is_final_after(count, max) == count > max

\* self.question_count >= self.max_questions
is_final_at(count, max) == count >= max

\* returns the agent after the call and the dict it returns
process_response(agent, candidate_response, evalReply, nextReply) ==
    LET evaluation == _evaluate_response(agent, candidate_response, evalReply)
        a1 == [agent EXCEPT !.interview_context = Append(@,
                   [question |-> agent.current_question,
                    response |-> candidate_response,
                    evaluation |-> evaluation])]
        next_question == _generate_next_question(a1, candidate_response, evaluation, nextReply)
        a2 == [a1 EXCEPT !.current_question = next_question,
                         !.question_count = @ + 1]
    IN [agent |-> a2,
        result |-> [question |-> next_question,
                    evaluation |-> evaluation,
                    is_final |-> is_final_at(a2.question_count, a2.max_questions),
                    question_number |-> a2.question_count + 1]]

\* a float kept as the exact quotient num / den
Quotient(num, den) == [num |-> num, den |-> den]

\* the mutant of progress_percentage: out of 10 questions, as the status
\* bar of run_interview assumes
progress_percentage_of_10(count, max) ==
    IF count * 100 <= 100 * 10 THEN Quotient(count * 100, 10) ELSE Quotient(100, 1)

\* min((len(self.interview_context) / self.max_questions) * 100, 100)
progress_percentage(count, max) ==
    IF count * 100 <= 100 * max THEN Quotient(count * 100, max) ELSE Quotient(100, 1)

get_interview_summary(agent) ==
    [total_questions |-> Len(agent.interview_context),
     max_questions |-> agent.max_questions,
     progress_percentage |-> progress_percentage(Len(agent.interview_context), agent.max_questions),
     job_config |-> agent.job_config,
     interview_context |-> agent.interview_context]

(***************************************************************************)
(* ConversationManager                                                     *)
(***************************************************************************)
RECURSIVE Sum(_)
Sum(seq) == IF seq = <<>> THEN 0 ELSE seq[1] + Sum(Tail(seq))

RECURSIVE Max(_)
Max(seq) == IF Len(seq) = 1 THEN seq[1]
            ELSE LET m == Max(Tail(seq)) IN IF seq[1] >= m THEN seq[1] ELSE m

RECURSIVE MinOf(_)
MinOf(seq) == IF Len(seq) = 1 THEN seq[1]
              ELSE LET m == MinOf(Tail(seq)) IN IF seq[1] <= m THEN seq[1] ELSE m

\* ConversationManager.__init__ (start_time is not modelled)
ConversationManager ==
    [cls |-> "ConversationManager",
     conversation_history |-> <<>>,
     evaluation_scores |-> <<>>,
     candidate_responses |-> <<>>,
     interviewer_questions |-> <<>>]

\* only JSONDecodeError, ValueError and TypeError are caught: the
\* AttributeError of .get on a JSON value that is not an object escapes
_extract_score(evaluation_json) ==
    LET p == json_loads(evaluation_json)
    IN IF p.exc = "JSONDecodeError" THEN Ok(0)
       ELSE LET g == dict_get(p.val, "score", JInt(0))
            IN IF g.exc # "none" THEN Raise(g.exc)
               ELSE IF g.val.t = "null" THEN Ok(0)
               ELSE LET f == float(g.val)
                    IN IF f.exc \in {"ValueError", "TypeError"} THEN Ok(0) ELSE f

\* the mutant of add_exchange: the exchanges are numbered from 0
add_exchange_zero_based(cm, candidate_input, interviewer_response) ==
    LET s == _extract_score(interviewer_response.evaluation)
        exchange == [candidate |-> candidate_input,
                     interviewer |-> interviewer_response.question,
                     evaluation |-> interviewer_response.evaluation,
                     question_number |-> Len(cm.conversation_history),
                     score |-> s.val]
    IN IF s.exc # "none" THEN Raise(s.exc)
       ELSE Ok([cm EXCEPT
                 !.conversation_history = Append(@, exchange),
                 !.candidate_responses = Append(@, candidate_input),
                 !.interviewer_questions = Append(@, interviewer_response.question),
                 !.evaluation_scores = Append(@, s.val)])

\* the score is extracted while the exchange is built, before anything is
\* appended: when it raises the manager is unchanged.  The timestamp of the
\* exchange is not modelled.
add_exchange(cm, candidate_input, interviewer_response) ==
    LET s == _extract_score(interviewer_response.evaluation)
        exchange == [candidate |-> candidate_input,
                     interviewer |-> interviewer_response.question,
                     evaluation |-> interviewer_response.evaluation,
                     question_number |-> Len(cm.conversation_history) + 1,
                     score |-> s.val]
    IN IF s.exc # "none" THEN Raise(s.exc)
       ELSE Ok([cm EXCEPT
                 !.conversation_history = Append(@, exchange),
                 !.candidate_responses = Append(@, candidate_input),
                 !.interviewer_questions = Append(@, interviewer_response.question),
                 !.evaluation_scores = Append(@, s.val)])

get_history(cm) == cm.conversation_history

\* round(total / n, 1) of a value in tenths: nearest tenth, ties to even
round1(total, n) ==
    LET q == total \div n
        r == total % n
    IN IF 2 * r < n THEN q
       ELSE IF 2 * r > n THEN q + 1
       ELSE IF q % 2 = 0 THEN q ELSE q + 1

get_average_score(cm) ==
    IF cm.evaluation_scores = <<>> THEN 0
    ELSE round1(Sum(cm.evaluation_scores), Len(cm.evaluation_scores))

\* the mutant of first_half_len: the middle element goes to the first half
first_half_len_ceil(n) == (n + 1) \div 2

\* len(self.evaluation_scores) // 2
first_half_len(n) == n \div 2

\* second_avg > first_avg + 0.5 and second_avg < first_avg - 0.5 on the
\* exact means: with scores in tenths, 0.5 is 5, and a/b > c/d + 5 is
\* a*d > c*b + 5*b*d
_calculate_score_trend(cm) ==
    LET scores == cm.evaluation_scores
        n == Len(scores)
        first_half == SubSeq(scores, 1, first_half_len(n))
        second_half == SubSeq(scores, first_half_len(n) + 1, n)
        l1 == Len(first_half)
        l2 == Len(second_half)
    IN IF n < 2 THEN "stable"
       ELSE IF first_half = <<>> \/ second_half = <<>> THEN "stable"
       ELSE IF Sum(second_half) * l1 > Sum(first_half) * l2 + 5 * l1 * l2 THEN "improving"
       ELSE IF Sum(second_half) * l1 < Sum(first_half) * l2 - 5 * l1 * l2 THEN "declining"
       ELSE "stable"

\* duration and duration_minutes (wall clock) are not modelled
get_stats(cm) ==
    [total_exchanges |-> Len(cm.conversation_history),
     average_score |-> get_average_score(cm),
     highest_score |-> IF cm.evaluation_scores # <<>> THEN Max(cm.evaluation_scores) ELSE 0,
     lowest_score |-> IF cm.evaluation_scores # <<>> THEN MinOf(cm.evaluation_scores) ELSE 0,
     score_trend |-> _calculate_score_trend(cm)]

\* len(response.split()) summed over the candidate's responses
total_words(responses) == Sum([i \in 1..Len(responses) |-> Len(responses[i])])

export_conversation(cm) ==
    LET stats == get_stats(cm)
    IN [conversation_history |-> cm.conversation_history,
        statistics |->
          [total_questions |-> Len(cm.conversation_history),
           average_score |-> stats.average_score,
           highest_score |-> stats.highest_score,
           lowest_score |-> stats.lowest_score,
           score_trend |-> stats.score_trend,
           total_candidate_words |-> total_words(cm.candidate_responses),
           average_response_length |->
             IF cm.candidate_responses # <<>>
             THEN total_words(cm.candidate_responses) \div Len(cm.candidate_responses)
             ELSE 0],
        scores_timeline |-> cm.evaluation_scores]

(***************************************************************************)
(* ReportGenerator                                                         *)
(***************************************************************************)
\* A text returned for the report: whether it holds a "{", whether a "}"
\* follows it, and the text from the first "{" to the last "}".
ReportText(open, close, inner) == [open |-> open, close |-> close, inner |-> inner]

Assessment(a, b, c, x, y, z) ==
    JObject([x |-> JInt(a), y |-> JInt(b), z |-> JInt(c)])

\* the documents the service may send: the requested one, one outside the
\* schema's ranges and literals, and one with fields missing
ReportDocs ==
    { [executive_summary |-> JStr("Solid candidate."),
       overall_score |-> JInt(8),
       strengths |-> JList(<<JStr("Python")>>),
       areas_for_improvement |-> JList(<<JStr("SQL")>>),
       technical_assessment |-> Assessment(8, 7, 8, "technical_knowledge", "problem_solving", "technical_communication"),
       soft_skills_assessment |-> Assessment(7, 7, 8, "communication", "adaptability", "cultural_fit"),
       recommendation |-> JStr("Hire"),
       reasoning |-> JStr("Meets the bar.")],
      [executive_summary |-> JStr("Outstanding."),
       overall_score |-> JInt(11),
       strengths |-> JList(<<JStr("Everything")>>),
       areas_for_improvement |-> JList(<<>>),
       technical_assessment |-> Assessment(10, 10, 10, "technical_knowledge", "problem_solving", "technical_communication"),
       soft_skills_assessment |-> Assessment(10, 10, 10, "communication", "adaptability", "cultural_fit"),
       recommendation |-> JStr("Maybe"),
       reasoning |-> JStr("Unclear.")],
      [executive_summary |-> JStr("Short.")] }

ReportTexts ==
    {ReportText(TRUE, TRUE, json_dumps(JObject(d))) : d \in ReportDocs}
    \cup {ReportText(TRUE, TRUE, Plain("{ not json }")),
          ReportText(TRUE, FALSE, Plain("{ unterminated")),
          ReportText(FALSE, FALSE, Plain("I cannot produce a report."))}

ReportReplies ==
    {ServiceError, [ok |-> TRUE, choices |-> <<>>]}
    \cup {Response(t) : t \in ReportTexts}

_create_basic_report ==
    [executive_summary |-> JStr("Interview completed successfully with standard evaluation."),
     overall_score |-> JInt(6),
     strengths |-> JList(<<JStr("Communication skills"), JStr("Technical engagement")>>),
     areas_for_improvement |-> JList(<<JStr("More specific examples needed"), JStr("Technical depth")>>),
     technical_assessment |-> Assessment(6, 6, 6, "technical_knowledge", "problem_solving", "technical_communication"),
     soft_skills_assessment |-> Assessment(6, 6, 6, "communication", "adaptability", "cultural_fit"),
     recommendation |-> JStr("Further Interview Required"),
     reasoning |-> JStr("Additional assessment needed for final determination.")]

\* content.find("{") is -1 without a "{"; content.rfind("}") + 1 is never
\* -1, and is 0 without a "}", which makes the slice empty
_parse_report_content(content) ==
    IF ~content.open THEN _create_basic_report
    ELSE LET json_content == IF content.close THEN content.inner ELSE Plain("")
             p == json_loads(json_content)
         IN IF p.exc = "JSONDecodeError" THEN _create_basic_report ELSE p.val.m

\* datetime.now() is the token "today" / "now"
_add_metadata(parsed, conv_data, config) ==
    LET stats == conv_data.statistics
        metadata == JObject(
            [position |-> JStr(config["title"]),
             candidate_name |-> JStr(config["candidate_name"]),
             interview_date |-> JStr("today"),
             questions_asked |-> JInt(stats.total_questions),
             average_score |-> JFloat(stats.average_score)])
    IN [k \in DOMAIN parsed \cup {"interview_metadata", "report_generated_at"} |->
          CASE k = "interview_metadata" -> metadata
            [] k = "report_generated_at" -> JStr("now")
            [] OTHER -> parsed[k]]

_create_fallback_report(conv_data, config, error) ==
    LET stats == conv_data.statistics
    IN [executive_summary |-> JText(<<"Interview completed with ", ToString(stats.total_questions), " questions.">>),
        overall_score |-> JFloat(stats.average_score),
        strengths |-> JList(<<JStr("Completed interview process"), JStr("Engaged with questions")>>),
        areas_for_improvement |-> JList(<<JStr("Detailed assessment needed")>>),
        recommendation |-> JStr("Further Interview Required"),
        reasoning |-> JStr("Standard evaluation completed."),
        interview_metadata |-> JObject(
            [position |-> JStr(config["title"]),
             candidate_name |-> JStr(config["candidate_name"]),
             questions_asked |-> JInt(stats.total_questions),
             average_score |-> JFloat(stats.average_score)]),
        error_note |-> JText(<<"Fallback report due to: ", error>>)]

\* response.choices[0].message.content.strip()
first_choice_content(response) ==
    IF response.choices = <<>> THEN Raise("IndexError")
    ELSE Ok(response.choices[1].message.content)

\* the mutant of generate_report: a text that cannot be parsed is handled
\* like a failed call
generate_report_parse_failure_as_error(conv_data, config, reply) ==
    IF ~reply.ok
    THEN _create_fallback_report(conv_data, config, "GenerationServiceError")
    ELSE LET c == first_choice_content(reply)
         IN IF c.exc # "none"
            THEN _create_fallback_report(conv_data, config, c.exc)
            ELSE IF _parse_report_content(c.val) = _create_basic_report
            THEN _create_fallback_report(conv_data, config, "JSONDecodeError")
            ELSE _add_metadata(_parse_report_content(c.val), conv_data, config)

\* everything runs inside try / except Exception
generate_report(conv_data, config, reply) ==
    IF ~reply.ok
    THEN _create_fallback_report(conv_data, config, "GenerationServiceError")
    ELSE LET c == first_choice_content(reply)
         IN IF c.exc # "none"
            THEN _create_fallback_report(conv_data, config, c.exc)
            ELSE _add_metadata(_parse_report_content(c.val), conv_data, config)

(***************************************************************************)
(* app.py: the session state and the buttons                               *)
(***************************************************************************)
\* st.session_state.job_config = {}
EmptyDict == [k \in {} |-> ""]

\* what the sidebar widgets can hold
Titles == {"", "Software Engineer"}

Descriptions == {"", "Python, SQL, JavaScript"}

CandidateNames == {"", "John Doe"}

Durations == {Quick, Standard, Comprehensive}

\* what the response text area can hold, as words
UserInput == <<"I", "use", "decorators", "daily.">>

UserInputs == { <<>>, UserInput }

SkipText == <<"I'd", "prefer", "to", "skip", "this", "question.">>

NoIO == [first |-> None, eval |-> None, next |-> None, report |-> None]

\* the mutant of get_max_questions: Quick ends after 5 questions
get_max_questions_low(duration_setting) ==
    IF duration_setting = Quick THEN 5
    ELSE IF duration_setting \in DOMAIN duration_map THEN duration_map[duration_setting]
    ELSE 10

\* app.get_max_questions: its own copy of the duration map
get_max_questions(duration_setting) ==
    IF duration_setting \in DOMAIN duration_map THEN duration_map[duration_setting]
    ELSE 10

\* initialize_session_state, on a session without keys
Init ==
    /\ interview_started = FALSE
    /\ interview_ended = FALSE
    /\ job_config = EmptyDict
    /\ conversation_manager = None
    /\ interview_agent = None
    /\ agent_response = None
    /\ service_io = NoIO
    /\ conversation_data = None
    /\ report = None
    /\ st_error = "none"

\* the mutant of at_limit: one more response is accepted
at_limit_after(history, max_questions) == Len(history) > max_questions

\* run_interview: len(history) >= max_questions
at_limit(history, max_questions) == Len(history) >= max_questions

\* the branch run_interview takes: no input is offered at the limit
InterviewOpen ==
    /\ interview_started
    /\ ~interview_ended
    /\ ~at_limit(get_history(conversation_manager), get_max_questions(job_config["duration"]))

\* "Start Interview" with a title and a description
StartInterview ==
    \E job_title \in Titles, job_description \in Descriptions,
       interview_duration \in Durations, candidate_name \in CandidateNames,
       reply \in OpeningReplies :
       /\ job_title # "" /\ job_description # ""
       /\ LET config == [title |-> job_title,
                         level |-> "Mid Level (2-5 years)",
                         type |-> "Technical Focus",
                         duration |-> interview_duration,
                         description |-> job_description,
                         candidate_name |-> IF candidate_name # "" THEN candidate_name ELSE "Candidate"]
          IN /\ interview_started' = TRUE
             /\ interview_ended' = FALSE
             /\ job_config' = config
             /\ conversation_manager' = ConversationManager
             /\ interview_agent' = InterviewAgent(config, reply)
             /\ service_io' = [NoIO EXCEPT !.first = reply]
       /\ agent_response' = None
       /\ conversation_data' = None
       /\ report' = None
       /\ st_error' = "none"

\* show_interview_report: the export and the report of the run that shows
\* the report page
show_interview_report(reply) ==
    /\ conversation_data' = export_conversation(conversation_manager)
    /\ report' = generate_report(export_conversation(conversation_manager), job_config, reply)
    /\ service_io' = [NoIO EXCEPT !.report = reply]

\* "Start Interview" without a title or a description: st.error, and the
\* run goes on to the page of the unchanged session
StartRejected ==
    \E job_title \in Titles, job_description \in Descriptions :
       /\ job_title = "" \/ job_description = ""
       /\ st_error' = "Please fill in Job Title and Job Description before starting."
       /\ IF interview_started /\ interview_ended
          THEN \E reply \in ReportReplies : show_interview_report(reply)
          ELSE /\ report' = None
               /\ conversation_data' = None
               /\ service_io' = NoIO
       /\ agent_response' = None
       /\ UNCHANGED <<interview_started, interview_ended, job_config,
                      conversation_manager, interview_agent>>

\* the mutant of ResetState: job_config is not among the keys deleted
ResetState_keeps_job_config ==
    /\ interview_started' = FALSE
    /\ interview_ended' = FALSE
    /\ job_config' = job_config
    /\ conversation_manager' = None
    /\ interview_agent' = None
    /\ agent_response' = None
    /\ service_io' = NoIO
    /\ conversation_data' = None
    /\ report' = None
    /\ st_error' = "none"

\* reset_interview deletes the keys and the rerun's initialize_session_state
\* sets them again
ResetState ==
    /\ interview_started' = FALSE
    /\ interview_ended' = FALSE
    /\ job_config' = EmptyDict
    /\ conversation_manager' = None
    /\ interview_agent' = None
    /\ agent_response' = None
    /\ service_io' = NoIO
    /\ conversation_data' = None
    /\ report' = None
    /\ st_error' = "none"

\* "Reset Interview" in the sidebar
ResetInterview == interview_started /\ ResetState

\* "New Interview" on the report page
NewInterview == interview_started /\ interview_ended /\ ResetState

\* process_candidate_response: the agent is updated in place before
\* add_exchange runs, so an exception of add_exchange leaves it updated
process_candidate_response(user_input, evalReply, nextReply) ==
    LET r == process_response(interview_agent, user_input, evalReply, nextReply)
        added == add_exchange(conversation_manager, user_input, r.result)
    IN /\ interview_agent' = r.agent
       /\ agent_response' = r.result
       /\ service_io' = [NoIO EXCEPT !.eval = evalReply, !.next = nextReply]
       /\ IF added.exc = "none"
          THEN /\ conversation_manager' = added.val
               /\ st_error' = "none"
          ELSE /\ conversation_manager' = conversation_manager
               /\ st_error' = "Error processing response"
       /\ report' = None
       /\ conversation_data' = None
       /\ UNCHANGED <<interview_started, interview_ended, job_config>>

\* "Submit Response" with a text that is not blank
SubmitResponse ==
    \E user_input \in UserInputs, evalReply \in EvalReplies, nextReply \in QuestionReplies :
       /\ InterviewOpen
       /\ strip(user_input) # <<>>
       /\ process_candidate_response(strip(user_input), evalReply, nextReply)

\* the mutant of SkipQuestion: the skipped question is recorded, but its
\* score is kept out of the statistics
SkipQuestion_unscored ==
    \E evalReply \in EvalReplies, nextReply \in QuestionReplies :
       /\ InterviewOpen
       /\ Len(get_history(conversation_manager)) < MaxSkipPosition
       /\ LET r == process_response(interview_agent, SkipText, evalReply, nextReply)
              added == add_exchange(conversation_manager, SkipText, r.result)
          IN /\ interview_agent' = r.agent
             /\ agent_response' = r.result
             /\ service_io' = [NoIO EXCEPT !.eval = evalReply, !.next = nextReply]
             /\ IF added.exc = "none"
                THEN /\ conversation_manager' =
                          [added.val EXCEPT !.evaluation_scores =
                                               conversation_manager.evaluation_scores]
                     /\ st_error' = "none"
                ELSE /\ conversation_manager' = conversation_manager
                     /\ st_error' = "Error processing response"
             /\ report' = None
             /\ conversation_data' = None
             /\ UNCHANGED <<interview_started, interview_ended, job_config>>

\* "Skip Question"
SkipQuestion ==
    \E evalReply \in EvalReplies, nextReply \in QuestionReplies :
       /\ InterviewOpen
       /\ Len(get_history(conversation_manager)) < MaxSkipPosition
       /\ process_candidate_response(SkipText, evalReply, nextReply)

\* sets interview_ended; the rerun shows the report
EndAndShowReport(reply) ==
    /\ interview_ended' = TRUE
    /\ show_interview_report(reply)
    /\ agent_response' = None
    /\ st_error' = "none"
    /\ UNCHANGED <<interview_started, job_config, conversation_manager, interview_agent>>

\* "End Interview"
EndInterview ==
    \E reply \in ReportReplies : InterviewOpen /\ EndAndShowReport(reply)

\* "View Interview Report", offered at the limit
ViewReport ==
    \E reply \in ReportReplies :
       /\ interview_started /\ ~interview_ended
       /\ at_limit(get_history(conversation_manager), get_max_questions(job_config["duration"]))
       /\ EndAndShowReport(reply)

\* "Copy Report Text" / "Download JSON": a rerun of the report page, which
\* generates the report again
RerunReport ==
    \E reply \in ReportReplies :
       /\ interview_started /\ interview_ended
       /\ EndAndShowReport(reply)

\* the page main() shows: the welcome page, the interview with its input,
\* or a completed interview (the limit's "Interview completed!" without an
\* input, or the report)
SessionState ==
    IF ~interview_started THEN "NotStarted"
    ELSE IF interview_ended THEN "Completed"
    ELSE IF at_limit(get_history(conversation_manager), get_max_questions(job_config["duration"]))
         THEN "Completed"
    ELSE "InProgress"

Next ==
    \/ StartInterview
    \/ StartRejected
    \/ ResetInterview
    \/ NewInterview
    \/ SubmitResponse
    \/ SkipQuestion
    \/ EndInterview
    \/ ViewReport
    \/ RerunReport

Spec == Init /\ [][Next]_vars

(***************************************************************************)
(* A ConversationManager driven directly through its methods, with any     *)
(* evaluation a caller may pass                                            *)
(***************************************************************************)
DirectEvalTexts ==
    { fallback_evaluation_5,
      fallback_evaluation_6,
      json_dumps(EvalDoc(JInt(8), "depth")),
      json_dumps(JObject([feedback |-> JStr("fb")])),
      json_dumps(JList(<<JInt(7)>>)) }

InitCM ==
    /\ interview_started = FALSE
    /\ interview_ended = FALSE
    /\ job_config = EmptyDict
    /\ conversation_manager = ConversationManager
    /\ interview_agent = None
    /\ agent_response = None
    /\ service_io = NoIO
    /\ conversation_data = None
    /\ report = None
    /\ st_error = "none"

\* conversation_manager.add_exchange(candidate_input, interviewer_response)
CallAddExchange ==
    \E evaluation \in DirectEvalTexts :
       /\ Len(conversation_manager.conversation_history) < MaxExchanges
       /\ LET interviewer_response ==
                [question |-> fallback_questions[1],
                 evaluation |-> evaluation,
                 is_final |-> FALSE,
                 question_number |-> Len(conversation_manager.conversation_history) + 2]
              added == add_exchange(conversation_manager, UserInput, interviewer_response)
          IN /\ agent_response' = interviewer_response
             /\ IF added.exc = "none"
                THEN conversation_manager' = added.val /\ st_error' = "none"
                ELSE conversation_manager' = conversation_manager /\ st_error' = added.exc
       /\ conversation_data' = None
       /\ UNCHANGED <<interview_started, interview_ended, job_config,
                      interview_agent, service_io, report>>

\* conversation_manager.export_conversation()
CallExportConversation ==
    /\ conversation_data' = export_conversation(conversation_manager)
    /\ st_error' = "none"
    /\ UNCHANGED <<interview_started, interview_ended, job_config,
                   conversation_manager, interview_agent, agent_response,
                   service_io, report>>

NextCM == CallAddExchange \/ CallExportConversation

SpecCM == InitCM /\ [][NextCM]_vars

(***************************************************************************)
(* Properties                                                              *)
(***************************************************************************)
\* the exchanges recorded by the manager
History == get_history(conversation_manager)

\* the text of a reply, for a reply that carries one
ReplyText(reply) == reply.choices[1].message.content

\* C1: in every reachable state the agent's interview_context, its
\* question_count and the manager's history hold at most max_questions
\* exchanges: nothing is appended once the limit is reached.
C1_ExchangesWithinMax ==
    interview_started =>
       /\ Len(interview_agent.interview_context) <= interview_agent.max_questions
       /\ interview_agent.question_count <= interview_agent.max_questions
       /\ Len(History) <= interview_agent.max_questions

\* the limit is reached on every record
C1_Witness ==
    /\ interview_started
    /\ Len(History) = interview_agent.max_questions
    /\ interview_agent.question_count = interview_agent.max_questions
    /\ Len(interview_agent.interview_context) = interview_agent.max_questions

\* C2: the result of the k-th process_response of an interview of N
\* questions has is_final = FALSE for k < N and TRUE for k = N, whatever
\* the service replied.
C2_IsFinalAtMax ==
    (interview_started /\ agent_response # None) =>
       LET k == Len(History)
           N == _get_max_questions(job_config)
       IN /\ k < N => ~agent_response.is_final
          /\ k = N => agent_response.is_final

\* the N-th result is final, on a call the service answered
C2_Witness ==
    /\ interview_started /\ agent_response # None
    /\ agent_response.is_final
    /\ service_io.eval.ok /\ service_io.next.ok

\* C3: while the interview is not ended by hand, the session is Completed
\* exactly when the agent has processed max_questions responses: InProgress
\* after each earlier one, Completed right after that one.
C3_CompletedAtMax ==
    (interview_started /\ ~interview_ended) =>
       /\ interview_agent.question_count < interview_agent.max_questions
             => SessionState = "InProgress"
       /\ interview_agent.question_count = interview_agent.max_questions
             => SessionState = "Completed"
       /\ interview_agent.question_count <= interview_agent.max_questions

\* the state the last response leaves: Completed, nothing pressed since
C3_Witness ==
    /\ interview_started /\ ~interview_ended
    /\ agent_response # None /\ agent_response.is_final
    /\ SessionState = "Completed"

\* everything of the session is discarded
Discarded ==
    /\ ~interview_started /\ ~interview_ended
    /\ job_config = EmptyDict
    /\ conversation_manager = None
    /\ interview_agent = None

\* a new interview on a new profile, nothing answered yet
FreshInterview ==
    /\ interview_started /\ ~interview_ended
    /\ conversation_manager = ConversationManager
    /\ interview_agent # None
    /\ interview_agent.job_config = job_config
    /\ interview_agent.question_count = 0
    /\ interview_agent.interview_context = <<>>

\* C4 as stated: a step that leaves Completed is a reset, which discards
\* the conversation and the profile and leaves the session not started.
C4_OnlyResetLeavesCompleted ==
    [][(SessionState = "Completed" /\ SessionState' # "Completed") => Discarded']_vars

\* C4, amended: a step that leaves Completed is a reset, which discards the
\* conversation and the profile and leaves the session not started, or a
\* "Start Interview" with a title and a description, which replaces both
\* and leaves a new interview in progress with no exchange.
C4_ResetOrStartLeavesCompleted ==
    [][(SessionState = "Completed" /\ SessionState' # "Completed")
          => (Discarded' \/ FreshInterview')]_vars

\* a caller action (a rejected start) was taken on the report page, and the
\* session is still Completed
C4_Witness ==
    /\ SessionState = "Completed" /\ interview_ended
    /\ st_error = "Please fill in Job Title and Job Description before starting."
    /\ report # None

\* evaluation texts that are a JSON object whose score is not an integer
\* in 1..10
BadScoreTexts ==
    {t \in EvalTexts :
        /\ t.wf /\ t.doc.t = "object" /\ "score" \in DOMAIN t.doc.m
        /\ ~(t.doc.m["score"].t = "int" /\ t.doc.m["score"].i \in 1..10)}

\* C5: when the service returns an evaluation whose score is not an integer
\* in 1..10, the evaluation returned is the fixed fallback, not that text.
C5_BadScoreReplaced ==
    (interview_started /\ agent_response # None /\ service_io.eval.ok) =>
       (ReplyText(service_io.eval) \in BadScoreTexts
          => agent_response.evaluation = fallback_evaluation_5)

\* the service sent a score of 11 and the fallback was returned
C5_Witness ==
    /\ interview_started /\ agent_response # None
    /\ service_io.eval = Response(json_dumps(EvalDoc(JInt(11), "depth")))
    /\ agent_response.evaluation = fallback_evaluation_5

\* C6: every score recorded, in an exchange or in the scores timeline, lies
\* in [1, 10] (10..100 in tenths).
C6_ScoresInRange ==
    interview_started =>
       /\ \A i \in 1..Len(History) : History[i].score \in 10..100
       /\ \A i \in 1..Len(conversation_manager.evaluation_scores) :
             conversation_manager.evaluation_scores[i] \in 10..100

\* an exchange was recorded on a reply without a score
C6_Witness ==
    /\ interview_started /\ agent_response # None
    /\ service_io.eval = Response(json_dumps(JObject([feedback |-> JStr("fb")])))
    /\ Len(conversation_manager.evaluation_scores) = Len(History)
    /\ Len(History) >= 2

\* C7: no exception leaves process_response, add_exchange, the export or
\* the report: the exchange of every response is recorded, and the report
\* page holds an export and a report.
C7_NothingRaised ==
    /\ st_error # "Error processing response"
    /\ (interview_started /\ agent_response # None)
          => /\ Len(History) = interview_agent.question_count
             /\ History[Len(History)].evaluation = agent_response.evaluation
    /\ (interview_started /\ interview_ended)
          => (conversation_data # None /\ report # None)

\* the service sent JSON that is not an object and the exchange is recorded
C7_Witness ==
    /\ interview_started /\ agent_response # None
    /\ service_io.eval = Response(json_dumps(JList(<<JInt(7)>>)))
    /\ st_error = "none"
    /\ Len(History) = interview_agent.question_count

\* another profile, for an agent that shares nothing with the session's
OtherConfig ==
    [title |-> "Data Scientist", level |-> "Senior Level (5+ years)",
     type |-> "Behavioral Focus", duration |-> Quick,
     description |-> "Statistics", candidate_name |-> "Candidate"]

\* C8: under a failure of the service, an evaluation made now, of any
\* response, by the session's agent or by a new agent of another profile,
\* equals the evaluation the last failed call returned.
C8_FallbackIdentical ==
    (interview_started /\ agent_response # None /\ ~service_io.eval.ok) =>
       \A response \in {UserInput, SkipText} :
          /\ _evaluate_response(interview_agent, response, ServiceError)
                = agent_response.evaluation
          /\ _evaluate_response(InterviewAgent(OtherConfig, ServiceError), response, ServiceError)
                = agent_response.evaluation

\* a failed evaluation, with earlier exchanges behind it
C8_Witness ==
    /\ interview_started /\ agent_response # None
    /\ ~service_io.eval.ok
    /\ interview_agent.question_count >= 3

\* the service failed, or sent an empty text, for the next question
NextQuestionFailed ==
    \/ ~service_io.next.ok
    \/ ReplyText(service_io.next) = <<>>

\* C9: when the service fails or sends an empty text, the k-th response is
\* followed by the fallback question at index min(k - 1, length - 1), k - 1
\* being the exchanges counted when it is chosen; the entries of the list
\* are pairwise different, so the fallbacks differ until the last entry.
C9_FallbackQuestionByCount ==
    /\ \A i, j \in 1..Len(fallback_questions) :
          i # j => fallback_questions[i] # fallback_questions[j]
    /\ (interview_started /\ agent_response # None /\ NextQuestionFailed) =>
          LET k == interview_agent.question_count
          IN agent_response.question
               = fallback_questions[Min(k - 1, Len(fallback_questions) - 1) + 1]

\* the list is exhausted: the last entry is returned again
C9_Witness ==
    /\ interview_started /\ agent_response # None
    /\ ~service_io.next.ok
    /\ interview_agent.question_count > Len(fallback_questions)
    /\ agent_response.question = fallback_questions[Len(fallback_questions)]

RECURSIVE SumFromTo(_, _, _)
SumFromTo(seq, from, to) ==
    IF from > to THEN 0 ELSE seq[from] + SumFromTo(seq, from + 1, to)

\* the trend as the claim states it, on the exact means (scores in tenths)
StatedTrend(scores) ==
    LET n == Len(scores)
        h == n \div 2
        first == SumFromTo(scores, 1, h)
        second == SumFromTo(scores, h + 1, n)
    IN IF n < 2 THEN "stable"
       ELSE IF second * h > (first + 5 * h) * (n - h) THEN "improving"
       ELSE IF second * h < (first - 5 * h) * (n - h) THEN "declining"
       ELSE "stable"

\* C10: the trend of an export is "stable" under 2 scores; otherwise the
\* scores are split at n div 2, the middle of an odd count going to the
\* second half, and the trend is "improving" if the second mean exceeds the
\* first by more than 0.5, "declining" if it is lower by more than 0.5, and
\* "stable" otherwise.
C10_TrendBySplitMeans ==
    conversation_data # None =>
       conversation_data.statistics.score_trend
          = StatedTrend(conversation_data.scores_timeline)

\* an odd count whose trend depends on where the middle score goes: with
\* 5, 8, 5 the halves are <<5>> and <<8, 5>>
C10_Witness ==
    /\ conversation_data # None
    /\ conversation_data.scores_timeline = <<50, 80, 50>>
    /\ conversation_data.statistics.score_trend = "improving"

\* C11: after k responses of an interview of N questions the summary
\* reports total_questions = k and progress_percentage = min(100 k / N, 100),
\* which lies in [0, 100] and is 100 exactly when k >= N.
C11_SummaryProgress ==
    interview_started =>
       LET summary == get_interview_summary(interview_agent)
           p == summary.progress_percentage
           k == Len(History)
           N == get_max_questions(job_config["duration"])
       IN /\ summary.total_questions = k
          /\ summary.max_questions = N
          /\ p.den > 0
          /\ p.num * N = Min(100 * k, 100 * N) * p.den
          /\ 0 <= p.num /\ p.num <= 100 * p.den
          /\ (p.num = 100 * p.den) <=> (k >= N)

\* all 8 responses of a Quick interview are in: the progress is 100
C11_Witness ==
    /\ interview_started
    /\ job_config["duration"] = Quick
    /\ Len(History) = 8
    /\ get_interview_summary(interview_agent).progress_percentage = Quotient(800, 8)

\* the four literals of the recommendation
Recommendations ==
    {JStr("Strong Hire"), JStr("Hire"), JStr("No Hire"), JStr("Further Interview Required")}

\* C12: the recommendation of every report is one of the four literals,
\* whatever text the service returns.
C12_RecommendationEnumerated ==
    report # None =>
       /\ "recommendation" \in DOMAIN report
       /\ report["recommendation"] \in Recommendations

\* an exception was raised inside generate_report's try: the call failed,
\* or the response holds no first choice to read
SynthesisRaised ==
    \/ ~service_io.report.ok
    \/ service_io.report.choices = <<>>

\* the service answered with a text that holds no JSON object
SynthesisUnparseable ==
    /\ service_io.report.ok
    /\ service_io.report.choices # <<>>
    /\ LET content == ReplyText(service_io.report)
       IN ~content.open \/ ~content.close \/ ~content.inner.wf

ScoreInRange(v) ==
    \/ v.t = "int" /\ v.i \in 1..10
    \/ v.t = "float" /\ v.f \in 10..100

\* C14: the overall_score of every report lies in [1, 10], on every path
\* and for every conversation, one ended with no exchange included.
C14_OverallScoreInRange ==
    report # None =>
       /\ "overall_score" \in DOMAIN report
       /\ ScoreInRange(report["overall_score"])

\* C15: every report holds the metadata position, candidate_name,
\* interview_date, questions_asked and average_score, set from the job
\* configuration and the statistics of the conversation.
C15_MetadataComplete ==
    report # None =>
       /\ "interview_metadata" \in DOMAIN report
       /\ LET metadata == report["interview_metadata"].m
          IN /\ DOMAIN metadata = {"position", "candidate_name", "interview_date",
                                   "questions_asked", "average_score"}
             /\ metadata["position"] = JStr(job_config["title"])
             /\ metadata["candidate_name"] = JStr(job_config["candidate_name"])
             /\ metadata["questions_asked"] = JInt(Len(History))
             /\ metadata["average_score"] = JFloat(get_average_score(conversation_manager))

\* C16: the i-th exchange of the history has number i; a step appends one
\* exchange behind the unchanged earlier ones, or starts a new interview
\* with an empty history, or leaves the manager as it is; the export and
\* the generation of the report leave it as it is.
C16_AppendOnlyNumbered ==
    [][conversation_manager' # None =>
         /\ \A i \in 1..Len(History') : History'[i].question_number = i
         /\ conversation_manager # None =>
               \/ conversation_manager' = conversation_manager
               \/ FreshInterview'
               \/ /\ Len(History') = Len(History) + 1
                  /\ SubSeq(History', 1, Len(History)) = History
                  /\ SubSeq(conversation_manager'.evaluation_scores, 1, Len(History))
                        = conversation_manager.evaluation_scores
                  /\ SubSeq(conversation_manager'.candidate_responses, 1, Len(History))
                        = conversation_manager.candidate_responses
         /\ (report' # None \/ conversation_data' # None) =>
               /\ conversation_manager' = conversation_manager
               /\ conversation_data' = export_conversation(conversation_manager)
               /\ conversation_data'.conversation_history = get_history(conversation_manager)
               /\ conversation_data'.statistics.average_score
                     = get_stats(conversation_manager).average_score]_vars

\* three exchanges numbered 1, 2, 3, exported and reported
C16_Witness ==
    /\ conversation_manager # None
    /\ Len(History) = 3
    /\ History[3].question_number = 3
    /\ report # None
    /\ conversation_data # None
    /\ conversation_data.conversation_history = History

\* C17: a step that records the skip text does what a submitted answer of
\* that text does: the result is that of process_response, one exchange is
\* added with the evaluation, the count goes up by one and the score joins
\* the statistics.  A step that ends the interview adds no exchange and
\* leaves the session Completed, at any number of exchanges.
C17_SkipIsAnAnswer ==
    [][/\ (/\ interview_agent # None
            /\ interview_agent' # None
            /\ agent_response' # None
            /\ Len(interview_agent'.interview_context)
                  = Len(interview_agent.interview_context) + 1
            /\ interview_agent'.interview_context[Len(interview_agent'.interview_context)].response
                  = SkipText) =>
            LET n == Len(History)
                submitted == process_response(interview_agent, SkipText,
                                              service_io'.eval, service_io'.next)
            IN /\ agent_response' = submitted.result
               /\ interview_agent' = submitted.agent
               /\ interview_agent'.question_count = interview_agent.question_count + 1
               /\ Len(History') = n + 1
               /\ History'[n + 1].candidate = SkipText
               /\ History'[n + 1].evaluation = agent_response'.evaluation
               /\ History'[n + 1].score = _extract_score(agent_response'.evaluation).val
               /\ conversation_manager'.evaluation_scores
                     = Append(conversation_manager.evaluation_scores, History'[n + 1].score)
               /\ get_stats(conversation_manager').total_exchanges = n + 1
               /\ get_stats(conversation_manager').average_score
                     = round1(Sum(conversation_manager.evaluation_scores)
                                + History'[n + 1].score, n + 1)
       /\ (interview_started /\ ~interview_ended /\ interview_ended') =>
            /\ conversation_manager' = conversation_manager
            /\ SessionState' = "Completed"]_vars

\* an answer, then a skip, then "End Interview" before the limit
C17_Witness ==
    /\ interview_started /\ interview_ended
    /\ Len(History) = 2
    /\ History[1].candidate = UserInput
    /\ History[2].candidate = SkipText
    /\ Len(conversation_manager.evaluation_scores) = 2
    /\ SessionState = "Completed"

\* C18: the k-th exchange of the history holds the k-th response with the
\* question it answered, the one the agent recorded with that response: the
\* opening question for k = 1.
C18_ExchangePairsAnsweredQuestion ==
    (conversation_manager # None /\ interview_agent # None) =>
       \A k \in 1..Len(History) :
          k <= Len(interview_agent.interview_context) =>
             /\ History[k].candidate = interview_agent.interview_context[k].response
             /\ History[k].interviewer = interview_agent.interview_context[k].question

\* C19: the agent's count, its context and the manager's three lists have
\* one length, after any responses and any replies of the service.
C19_RecordsInStep ==
    interview_started =>
       /\ interview_agent.question_count = Len(interview_agent.interview_context)
       /\ Len(interview_agent.interview_context) = Len(History)
       /\ Len(History) = Len(conversation_manager.evaluation_scores)
       /\ Len(History) = Len(conversation_manager.candidate_responses)

\* three responses, the last one evaluated by the service with a JSON text
\* that is not an object
C19_Witness ==
    /\ interview_started
    /\ agent_response # None
    /\ interview_agent.question_count = 3
    /\ Len(History) = 3
    /\ service_io.eval.ok
    /\ ReplyText(service_io.eval) = json_dumps(JList(<<JInt(7)>>))

\* C20: when the service answered with a text that is not empty, the first
\* question and the next question are that text, and the evaluation is the
\* service's text when it is JSON.
C20_FallbackOnlyOnFailure ==
    /\ (/\ interview_agent # None
        /\ service_io.first # None
        /\ service_io.first.ok
        /\ ReplyText(service_io.first) # <<>>) =>
          get_first_question(interview_agent) = strip(ReplyText(service_io.first))
    /\ (/\ agent_response # None
        /\ service_io.next # None
        /\ service_io.next.ok
        /\ ReplyText(service_io.next) # <<>>) =>
          agent_response.question = strip(ReplyText(service_io.next))
    /\ (/\ agent_response # None
        /\ service_io.eval # None
        /\ service_io.eval.ok
        /\ ReplyText(service_io.eval).wf) =>
          agent_response.evaluation = ReplyText(service_io.eval)

====
